---- MODULE Spec2Model ----
(***************************************************************************)
(* The rule engine of the ad-spend anomaly detector: run_logic_checks of   *)
(* src/app.py, called from the simulation dashboard (tab1) and from the    *)
(* manual test lab (tab2).                                                 *)
(*                                                                         *)
(* Numbers.  The metrics are Python floats.  The model keeps every metric  *)
(* that is a float as a count of half units (the stored form of v is 2*v), *)
(* so the bundles range over whole and half values: 4999.5, 5000, 2.5 ...  *)
(* These are exactly representable as doubles, and on them the products    *)
(* x * 1.2, x * 1.5, x * 0.5 compare with another half-unit value exactly  *)
(* as in exact arithmetic.  conv_last_4h is a Python int and is kept as    *)
(* is.  A product by a decimal multiplier is kept in tenths of the stored  *)
(* unit.                                                                   *)
(***************************************************************************)
EXTENDS Integers, Sequences, FiniteSets, TLC

VARIABLES pc, metrics, alerts, returned

vars == <<pc, metrics, alerts, returned>>

(***************************************************************************)
(* Bounds of the model.                                                    *)
(***************************************************************************)
\* spend_last_4h ranges over the half units within SpendSpread of the floor
SpendSpread == 1
\* conv_last_4h ranges over 0..MaxConv
MaxConv == 1
\* daily_budget ranges over the half units up to MaxBudget (2.5 when 5)
MaxBudget == 5
\* daily_spend ranges over the half units up to MaxDailySpend
MaxDailySpend == 7
\* avg_cpm, current_cpm range over the half units up to these
MaxAvgCpm == 2
MaxCurrentCpm == 4
\* avg_ctr, current_ctr range over the half units up to these
MaxAvgCtr == 2
MaxCurrentCtr == 2
\* of two concurrent callers, current_cpm and current_ctr range over the
\* half units up to these
MaxPairCpm == 3
MaxPairCtr == 2

(***************************************************************************)
(* Fixed point.                                                            *)
(***************************************************************************)
\* the stored form of the whole number n
Fix(n) == n * 2
\* the stored value x in tenths, and its product by a multiplier in tenths
Tenths(x) == x * 10
Times(x, tenths) == x * tenths

\* the spend floor of Rule A
SpendFloor == 5000

(***************************************************************************)
(* String formatting of the f-strings, on half-unit values.                *)
(***************************************************************************)
Digit(d) ==
    CASE d = 0 -> "0" [] d = 1 -> "1" [] d = 2 -> "2" [] d = 3 -> "3"
      [] d = 4 -> "4" [] d = 5 -> "5" [] d = 6 -> "6" [] d = 7 -> "7"
      [] d = 8 -> "8" [] d = 9 -> "9"

RECURSIVE Str(_)
\* the decimal digits of the natural number n
Str(n) == IF n < 10 THEN Digit(n) ELSE Str(n \div 10) \o Digit(n % 10)

\* the three digits of a group after a thousands separator
Pad3(n) == Digit(n \div 100) \o Digit((n \div 10) % 10) \o Digit(n % 10)

RECURSIVE Grouped(_)
\* the digits of n with a comma between groups of three (the "," option)
Grouped(n) ==
    IF n < 1000 THEN Str(n) ELSE Grouped(n \div 1000) \o "," \o Pad3(n % 1000)

\* the two decimals of a half-unit value
Cents(x) == IF x % 2 = 1 THEN ".50" ELSE ".00"

\* format(x, ".2f")
Fixed2(x) == Str(x \div 2) \o Cents(x)

\* format(x, ",.2f")
Fixed2Comma(x) == Grouped(x \div 2) \o Cents(x)

\* str(x) of a float: the shortest decimal that reads back as x
FloatStr(x) == Str(x \div 2) \o (IF x % 2 = 1 THEN ".5" ELSE ".0")

(***************************************************************************)
(* The metrics bundles.                                                    *)
(***************************************************************************)
Bundles ==
    [spend_last_4h : (Fix(SpendFloor) - SpendSpread)..(Fix(SpendFloor) + SpendSpread),
     conv_last_4h  : 0..MaxConv,
     daily_spend   : 0..MaxDailySpend,
     daily_budget  : 1..MaxBudget,
     current_cpm   : 0..MaxCurrentCpm,
     avg_cpm       : 0..MaxAvgCpm,
     current_ctr   : 0..MaxCurrentCtr,
     avg_ctr       : 0..MaxAvgCtr]

\* the bundles two concurrent callers draw from: for each rule its own
\* fields take values on both sides of its threshold
PairBundles ==
    [spend_last_4h : {Fix(SpendFloor) + 1},
     conv_last_4h  : {0, 1},
     daily_spend   : {6, 7},
     daily_budget  : {5},
     current_cpm   : 1..MaxPairCpm,
     avg_cpm       : {1},
     current_ctr   : 0..MaxPairCtr,
     avg_ctr       : {3}]

\* the two call sites of run_logic_checks
Callers == {"tab1", "tab2"}

\* the dictionary of a caller that has not built one
NoMetrics == [spend_last_4h |-> 0, conv_last_4h |-> 0, daily_spend |-> 0,
              daily_budget |-> 0, current_cpm |-> 0, avg_cpm |-> 0,
              current_ctr |-> 0, avg_ctr |-> 0]

(***************************************************************************)
(* The four rules: each block of run_logic_checks appends to alerts.       *)
(***************************************************************************)
AlertA(m) ==
    [Tier     |-> "Tier 1: Kill Switch",
     Rule     |-> "Rule A (Zero Conversions)",
     Severity |-> "Critical (P0)",
     Message  |-> "ZERO conversions in last 4h despite spending ₹"
                    \o Fixed2Comma(m.spend_last_4h) \o ".",
     Action   |-> "Check Landing Page / Pixel"]

\* CheckA with the floor itself firing
CheckA_AtFloor(m, al) ==
    IF m.spend_last_4h >= Fix(SpendFloor) /\ m.conv_last_4h = 0
    THEN Append(al, AlertA(m))
    ELSE al

CheckA(m, al) ==
    IF m.spend_last_4h > Fix(SpendFloor) /\ m.conv_last_4h = 0
    THEN Append(al, AlertA(m))
    ELSE al

AlertB(m) ==
    [Tier     |-> "Tier 1: Kill Switch",
     Rule     |-> "Rule B (Pacing Breach)",
     Severity |-> "Critical (P0)",
     Message  |-> "Daily spend ₹" \o Fixed2Comma(m.daily_spend)
                    \o " exceeded budget limit (₹" \o FloatStr(m.daily_budget)
                    \o ") by >20%.",
     Action   |-> "Pause Campaign / Check Bids"]

\* CheckB with the limit itself firing
CheckB_AtLimit(m, al) ==
    LET limit == Times(m.daily_budget, 12)
    IN  IF Tenths(m.daily_spend) >= limit
        THEN Append(al, AlertB(m))
        ELSE al

\* CheckB putting its alert at the head of the list
CheckB_Prepend(m, al) ==
    LET limit == Times(m.daily_budget, 12)
    IN  IF Tenths(m.daily_spend) > limit
        THEN <<AlertB(m)>> \o al
        ELSE al

CheckB(m, al) ==
    LET limit == Times(m.daily_budget, 12)
    IN  IF Tenths(m.daily_spend) > limit
        THEN Append(al, AlertB(m))
        ELSE al

AlertC(m) ==
    [Tier     |-> "Tier 2: Trend Watch",
     Rule     |-> "Rule C (CPM Spike)",
     Severity |-> "High (P1)",
     Message  |-> "Current CPM (₹" \o Fixed2(m.current_cpm)
                    \o ") is >50% above average (₹" \o Fixed2(m.avg_cpm) \o ").",
     Action   |-> "Check Auction Competition"]

\* CheckC with the limit itself firing
CheckC_AtLimit(m, al) ==
    IF Tenths(m.current_cpm) >= Times(m.avg_cpm, 15)
    THEN Append(al, AlertC(m))
    ELSE al

\* CheckC as an elif of Rule B: skipped when Rule B fired
CheckC_Elif(m, al) ==
    IF /\ ~(\E i \in 1..Len(al) : al[i].Rule = "Rule B (Pacing Breach)")
       /\ Tenths(m.current_cpm) > Times(m.avg_cpm, 15)
    THEN Append(al, AlertC(m))
    ELSE al

\* CheckC with a zero baseline special-cased
CheckC_GuardZero(m, al) ==
    IF m.avg_cpm > 0 /\ Tenths(m.current_cpm) > Times(m.avg_cpm, 15)
    THEN Append(al, AlertC(m))
    ELSE al

\* CheckC with the comparison turned round
CheckC_Reversed(m, al) ==
    IF Tenths(m.current_cpm) < Times(m.avg_cpm, 15)
    THEN Append(al, AlertC(m))
    ELSE al

CheckC(m, al) ==
    IF Tenths(m.current_cpm) > Times(m.avg_cpm, 15)
    THEN Append(al, AlertC(m))
    ELSE al

\* AlertD with the severity of the block it was copied from
AlertD_CopiedSeverity(m) ==
    [Tier     |-> "Tier 2: Trend Watch",
     Rule     |-> "Rule D (CTR Drop)",
     Severity |-> "High (P1)",
     Message  |-> "Current CTR (" \o Fixed2(m.current_ctr)
                    \o "%) dropped >50% below average (" \o Fixed2(m.avg_ctr)
                    \o "%).",
     Action   |-> "Check Creative Fatigue"]

AlertD(m) ==
    [Tier     |-> "Tier 2: Trend Watch",
     Rule     |-> "Rule D (CTR Drop)",
     Severity |-> "Medium (P2)",
     Message  |-> "Current CTR (" \o Fixed2(m.current_ctr)
                    \o "%) dropped >50% below average (" \o Fixed2(m.avg_ctr)
                    \o "%).",
     Action   |-> "Check Creative Fatigue"]

\* CheckD with the limit itself firing
CheckD_AtLimit(m, al) ==
    IF Tenths(m.current_ctr) <= Times(m.avg_ctr, 5)
    THEN Append(al, AlertD(m))
    ELSE al

CheckD(m, al) ==
    IF Tenths(m.current_ctr) < Times(m.avg_ctr, 5)
    THEN Append(al, AlertD(m))
    ELSE al

\* the whole function, on a bundle
run_logic_checks(m) == CheckD(m, CheckC(m, CheckB(m, CheckA(m, <<>>))))

(***************************************************************************)
(* The state machine: each caller is at a place of its call.               *)
(***************************************************************************)
Init ==
    /\ pc = [c \in Callers |-> "idle"]
    /\ metrics = [c \in Callers |-> NoMetrics]
    /\ alerts = [c \in Callers |-> <<>>]
    /\ returned = [c \in Callers |-> <<>>]

\* Call with one list shared by the callers instead of a fresh one
Call_SharedList(c, m) ==
    /\ pc[c] = "idle"
    /\ pc' = [pc EXCEPT ![c] = "ruleA"]
    /\ metrics' = [metrics EXCEPT ![c] = m]
    /\ alerts' = [alerts EXCEPT ![c] = alerts[CHOOSE d \in Callers : d # c]]
    /\ returned' = [returned EXCEPT ![c] = <<>>]

\* the caller builds its dictionary and enters the function: alerts = []
Call(c, m) ==
    /\ pc[c] = "idle"
    /\ pc' = [pc EXCEPT ![c] = "ruleA"]
    /\ metrics' = [metrics EXCEPT ![c] = m]
    /\ alerts' = [alerts EXCEPT ![c] = <<>>]
    /\ returned' = [returned EXCEPT ![c] = <<>>]

RuleA(c) ==
    /\ pc[c] = "ruleA"
    /\ alerts' = [alerts EXCEPT ![c] = CheckA(metrics[c], alerts[c])]
    /\ pc' = [pc EXCEPT ![c] = "ruleB"]
    /\ UNCHANGED <<metrics, returned>>

RuleB(c) ==
    /\ pc[c] = "ruleB"
    /\ alerts' = [alerts EXCEPT ![c] = CheckB(metrics[c], alerts[c])]
    /\ pc' = [pc EXCEPT ![c] = "ruleC"]
    /\ UNCHANGED <<metrics, returned>>

RuleC(c) ==
    /\ pc[c] = "ruleC"
    /\ alerts' = [alerts EXCEPT ![c] = CheckC(metrics[c], alerts[c])]
    /\ pc' = [pc EXCEPT ![c] = "ruleD"]
    /\ UNCHANGED <<metrics, returned>>

RuleD(c) ==
    /\ pc[c] = "ruleD"
    /\ alerts' = [alerts EXCEPT ![c] = CheckD(metrics[c], alerts[c])]
    /\ pc' = [pc EXCEPT ![c] = "return"]
    /\ UNCHANGED <<metrics, returned>>

\* return alerts: the caller holds the list
Return(c) ==
    /\ pc[c] = "return"
    /\ returned' = [returned EXCEPT ![c] = alerts[c]]
    /\ pc' = [pc EXCEPT ![c] = "done"]
    /\ UNCHANGED <<metrics, alerts>>

\* the script runs again: the dictionary and the list of the last run are gone
Rerun(c) ==
    /\ pc[c] = "done"
    /\ pc' = [pc EXCEPT ![c] = "idle"]
    /\ metrics' = [metrics EXCEPT ![c] = NoMetrics]
    /\ alerts' = [alerts EXCEPT ![c] = <<>>]
    /\ returned' = [returned EXCEPT ![c] = <<>>]

\* the manual test lab, on any bundle
Submit == pc["tab2"] = "idle" /\ \E m \in Bundles : Call("tab2", m)
StepA == RuleA("tab2")
StepB == RuleB("tab2")
StepC == RuleC("tab2")
StepD == RuleD("tab2")
StepReturn == Return("tab2")
StepRerun == Rerun("tab2")

Next == Submit \/ StepA \/ StepB \/ StepC \/ StepD \/ StepReturn \/ StepRerun

Spec == Init /\ [][Next]_vars

\* both callers, interleaved
PairCall ==
    \E c \in Callers : pc[c] = "idle" /\ \E m \in PairBundles : Call(c, m)
PairA == \E c \in Callers : RuleA(c)
PairB == \E c \in Callers : RuleB(c)
PairC == \E c \in Callers : RuleC(c)
PairD == \E c \in Callers : RuleD(c)
PairReturn == \E c \in Callers : Return(c)
PairRerun == \E c \in Callers : Rerun(c)

PairNext ==
    PairCall \/ PairA \/ PairB \/ PairC \/ PairD \/ PairReturn \/ PairRerun

PairSpec == Init /\ [][PairNext]_vars

(***************************************************************************)
(* Vocabulary of the properties.                                           *)
(***************************************************************************)
NameA == "Rule A (Zero Conversions)"
NameB == "Rule B (Pacing Breach)"
NameC == "Rule C (CPM Spike)"
NameD == "Rule D (CTR Drop)"
RuleNames == {NameA, NameB, NameC, NameD}

Tier1 == "Tier 1: Kill Switch"
Tier2 == "Tier 2: Trend Watch"

\* how many alerts of the list al are of the rule
Count(al, rule) == Cardinality({i \in 1..Len(al) : al[i].Rule = rule})
Fired(al, rule) == \E i \in 1..Len(al) : al[i].Rule = rule
FiredSet(al) == {al[i].Rule : i \in 1..Len(al)}

\* the place of a rule in the order A, B, C, D
RuleIndex(rule) ==
    CASE rule = NameA -> 1 [] rule = NameB -> 2 [] rule = NameC -> 3
      [] rule = NameD -> 4 [] OTHER -> 0

\* the trigger conditions as the specification states them, on stored values
TriggerA(m) == m.spend_last_4h > Fix(5000) /\ m.conv_last_4h = 0
TriggerB(m) == m.daily_spend * 10 > m.daily_budget * 12
TriggerC(m) == m.current_cpm * 10 > m.avg_cpm * 15
TriggerD(m) == m.current_ctr * 10 < m.avg_ctr * 5

Done(c) == pc[c] = "done"

(***************************************************************************)
(* C1.  The list a call returns holds exactly one Rule A alert when        *)
(* spend_last_4h > 5000 and conv_last_4h = 0, and none otherwise: none     *)
(* whenever conv_last_4h > 0, and none when spend_last_4h is exactly 5000. *)
(***************************************************************************)
C1_RuleA ==
    \A c \in Callers : Done(c) =>
        /\ Count(returned[c], NameA) = IF TriggerA(metrics[c]) THEN 1 ELSE 0
        /\ metrics[c].conv_last_4h > 0 => ~Fired(returned[c], NameA)
        /\ metrics[c].spend_last_4h = Fix(5000) => ~Fired(returned[c], NameA)

\* a call returned one Rule A alert for a spend of 5000.5 with no conversion
C1_Witness ==
    \E c \in Callers :
        /\ Done(c)
        /\ metrics[c].spend_last_4h = Fix(5000) + 1
        /\ metrics[c].conv_last_4h = 0
        /\ Count(returned[c], NameA) = 1

C4_RuleD ==
    \A c \in Callers : Done(c) =>
        /\ Count(returned[c], NameD) = IF TriggerD(metrics[c]) THEN 1 ELSE 0
        /\ metrics[c].current_ctr * 10 = metrics[c].avg_ctr * 5
             => ~Fired(returned[c], NameD)

\* a call returned one Rule D alert for a CTR of 0 against an average of 0.5
C4_Witness ==
    \E c \in Callers :
        /\ Done(c)
        /\ metrics[c].avg_ctr = 1
        /\ metrics[c].current_ctr = 0
        /\ Count(returned[c], NameD) = 1

(***************************************************************************)
(* C5.  The alerts of a list appear in the rule order A, B, C, D: of two   *)
(* alerts the one of the earlier rule has the smaller index, so no Tier 2  *)
(* alert precedes a Tier 1 alert.  It holds of the list under construction *)
(* and of the list returned.                                               *)
(***************************************************************************)
InRuleOrder(al) ==
    \A i, j \in 1..Len(al) : i < j =>
        /\ RuleIndex(al[i].Rule) < RuleIndex(al[j].Rule)
        /\ ~(al[i].Tier = Tier2 /\ al[j].Tier = Tier1)

\* C5: the list under construction and the list returned are in rule order
C5_Order == \A c \in Callers : InRuleOrder(alerts[c]) /\ InRuleOrder(returned[c])

\* a call returned the four alerts
C5_Witness ==
    \E c \in Callers :
        /\ Done(c)
        /\ Len(returned[c]) = 4
        /\ returned[c][1].Rule = NameA /\ returned[c][4].Rule = NameD

(***************************************************************************)
(* C6.  The rules are evaluated independently: of two calls whose bundles  *)
(* agree on the fields of a rule, either both return an alert of that rule *)
(* or neither does, whatever the other rules do; and every one of the 16   *)
(* subsets of the rules is the set of rules fired by some bundle.          *)
(***************************************************************************)
FieldsOf(rule) ==
    CASE rule = NameA -> {"spend_last_4h", "conv_last_4h"}
      [] rule = NameB -> {"daily_spend", "daily_budget"}
      [] rule = NameC -> {"current_cpm", "avg_cpm"}
      [] rule = NameD -> {"current_ctr", "avg_ctr"}

AgreeOn(m1, m2, fields) == \A f \in fields : m1[f] = m2[f]

EverySubsetFires ==
    \A S \in SUBSET RuleNames :
        \E m \in PairBundles : FiredSet(run_logic_checks(m)) = S

\* C6: every subset fires, and a rule fires alike on equal fields of its own
C6_Independent ==
    /\ EverySubsetFires
    /\ \A c1, c2 \in Callers : (Done(c1) /\ Done(c2)) =>
         \A r \in RuleNames :
            AgreeOn(metrics[c1], metrics[c2], FieldsOf(r))
              => (Fired(returned[c1], r) <=> Fired(returned[c2], r))

\* two calls returned, Rule C fired in both on the same CPM fields, and they
\* differ on each of the other three rules
C6_Witness ==
    \E c1, c2 \in Callers :
        /\ Done(c1) /\ Done(c2)
        /\ AgreeOn(metrics[c1], metrics[c2], FieldsOf(NameC))
        /\ Fired(returned[c1], NameC) /\ Fired(returned[c2], NameC)
        /\ FiredSet(returned[c1]) = RuleNames
        /\ FiredSet(returned[c2]) = {NameC}

(***************************************************************************)
(* C7.  Degenerate baselines keep the literal arithmetic: with avg_cpm = 0 *)
(* Rule C fires exactly when current_cpm > 0, and with avg_ctr = 0 Rule D  *)
(* never fires.                                                            *)
(***************************************************************************)
C7_Degenerate ==
    \A c \in Callers : Done(c) =>
        /\ metrics[c].avg_cpm = 0 =>
             (Fired(returned[c], NameC) <=> metrics[c].current_cpm > 0)
        /\ metrics[c].avg_ctr = 0 => ~Fired(returned[c], NameD)

\* a call returned on zero baselines: Rule C fired on a positive CPM and
\* Rule D did not fire
C7_Witness ==
    \E c \in Callers :
        /\ Done(c)
        /\ metrics[c].avg_cpm = 0 /\ metrics[c].current_cpm > 0
        /\ metrics[c].avg_ctr = 0
        /\ Fired(returned[c], NameC) /\ ~Fired(returned[c], NameD)

(***************************************************************************)
(* C8.  The function is stateless: two calls on the same bundle return     *)
(* equal lists, whatever was called before and however the calls of the    *)
(* callers interleave; a call in progress does not change its bundle, and  *)
(* a step of one caller changes nothing another caller holds.              *)
(***************************************************************************)
SameBundleSameAlerts ==
    \A c1, c2 \in Callers :
        (Done(c1) /\ Done(c2) /\ metrics[c1] = metrics[c2])
          => returned[c1] = returned[c2]

NoCrossCallEffect ==
    \A c \in Callers :
        /\ (pc[c] # "idle" /\ pc'[c] # "idle") => metrics'[c] = metrics[c]
        /\ pc'[c] = pc[c] =>
             /\ metrics'[c] = metrics[c]
             /\ alerts'[c] = alerts[c]
             /\ returned'[c] = returned[c]

\* C8: equal bundles give equal lists, and no step has a cross-call effect
C8_Stateless == [](SameBundleSameAlerts) /\ [][NoCrossCallEffect]_vars

\* both callers returned a list of two alerts for the same bundle
C8_Witness ==
    \E c1, c2 \in Callers :
        /\ c1 # c2
        /\ Done(c1) /\ Done(c2)
        /\ metrics[c1] = metrics[c2]
        /\ Len(returned[c1]) = 2 /\ Len(returned[c2]) = 2

(***************************************************************************)
(* C9.  Every alert carries the five fields Tier, Rule, Severity, Message  *)
(* and Action, and its rule fixes its tier and severity: A and B are       *)
(* Tier 1, Critical (P0); C is Tier 2, High (P1); D is Tier 2,             *)
(* Medium (P2).                                                            *)
(***************************************************************************)
WellFormedAlert(a) ==
    /\ DOMAIN a = {"Tier", "Rule", "Severity", "Message", "Action"}
    /\ a.Rule \in RuleNames
    /\ a.Rule \in {NameA, NameB} =>
         a.Tier = Tier1 /\ a.Severity = "Critical (P0)"
    /\ a.Rule = NameC => a.Tier = Tier2 /\ a.Severity = "High (P1)"
    /\ a.Rule = NameD => a.Tier = Tier2 /\ a.Severity = "Medium (P2)"

\* C9: every alert built or returned has the shape of its rule
C9_AlertShape ==
    \A c \in Callers :
        /\ \A i \in 1..Len(alerts[c]) : WellFormedAlert(alerts[c][i])
        /\ \A i \in 1..Len(returned[c]) : WellFormedAlert(returned[c][i])

\* a call returned alerts of the three severities
C9_Witness ==
    \E c \in Callers :
        /\ Done(c)
        /\ {returned[c][i].Severity : i \in 1..Len(returned[c])}
             = {"Critical (P0)", "High (P1)", "Medium (P2)"}

(***************************************************************************)
(* C10.  Firing is monotone in the current value.  Of two calls whose      *)
(* bundles differ only in current_cpm, if Rule C fires for the smaller CPM *)
(* it fires for the larger; of two that differ only in current_ctr, if     *)
(* Rule D fires for the larger CTR it fires for the smaller; in both cases *)
(* the other three rules fire alike.                                       *)
(***************************************************************************)
AllFields == DOMAIN NoMetrics

OthersAlike(c1, c2, rule) ==
    \A r \in RuleNames \ {rule} :
        Fired(returned[c1], r) <=> Fired(returned[c2], r)

\* C10: Rule C is monotone in current_cpm, Rule D in current_ctr
C10_Monotone ==
    \A c1, c2 \in Callers : (Done(c1) /\ Done(c2)) =>
        /\ ( /\ AgreeOn(metrics[c1], metrics[c2], AllFields \ {"current_cpm"})
             /\ metrics[c1].current_cpm <= metrics[c2].current_cpm )
           => /\ Fired(returned[c1], NameC) => Fired(returned[c2], NameC)
              /\ OthersAlike(c1, c2, NameC)
        /\ ( /\ AgreeOn(metrics[c1], metrics[c2], AllFields \ {"current_ctr"})
             /\ metrics[c1].current_ctr >= metrics[c2].current_ctr )
           => /\ Fired(returned[c1], NameD) => Fired(returned[c2], NameD)
              /\ OthersAlike(c1, c2, NameD)

\* two calls returned whose bundles differ only in current_cpm, and Rule C
\* fired for the smaller and for the larger
C10_Witness ==
    \E c1, c2 \in Callers :
        /\ Done(c1) /\ Done(c2)
        /\ AgreeOn(metrics[c1], metrics[c2], AllFields \ {"current_cpm"})
        /\ metrics[c1].current_cpm < metrics[c2].current_cpm
        /\ Fired(returned[c1], NameC) /\ Fired(returned[c2], NameC)

====
